---------------------------- MODULE Spec2Model ----------------------------
(***************************************************************************)
(* Option resolution of the directory lister (src/options/view.rs): the    *)
(* deduce functions that turn the flag record (Opts) and the environment   *)
(* (Vars) into a view configuration or an OptionsError.                    *)
(*                                                                         *)
(* Strings are sequences of one-character strings, so that the parsing     *)
(* the code does (starts_with, lines, split, parse) is computed on the     *)
(* characters.  Option<T> is a sequence of length 0 (None) or 1 (Some).    *)
(* A Result is a record tagged "Ok", "Err" or "Panic".                     *)
(***************************************************************************)
EXTENDS Integers, Sequences, FiniteSets, TLC

VARIABLES
    matches,    \* the flag record (Opts) handed to the deduce functions
    vars,       \* the environment (Vars): key -> Option<string>
    strict,     \* the strict argument of View::deduce / Mode::deduce
    rightmost,  \* which of --long / --oneline came last on the command line
    called,     \* the deduce function that has been called ("none" before)
    result      \* what that call returned

state == <<matches, vars, strict, rightmost, called, result>>

----------------------------------------------------------------------------
(* Bounds of the model *)

\* longest text after the '+' of a custom time style
MaxLen == 6
\* most tokens in a --color-scale value
MaxTokens == 3
\* most digits of a number given in an environment variable
MaxDigits == 3
\* most flags set on top of the view-selecting flags
MaxExtra == 2
\* largest value of the width flag
MaxWidth == 2

----------------------------------------------------------------------------
(* Option and Result *)

None == <<>>
Some(x) == <<x>>
IsSome(o) == Len(o) > 0
Unwrap(o) == o[1]

Ok(v) == [tag |-> "Ok", val |-> v]
Err(e) == [tag |-> "Err", err |-> e]
Panic(m) == [tag |-> "Panic", msg |-> m]
IsOk(r) == r.tag = "Ok"
IsErr(r) == r.tag = "Err"
IsPanic(r) == r.tag = "Panic"

\* OptionsError
Useless(flag, implies, ctx) ==
    [kind |-> "Useless", flag |-> flag, implies |-> implies, ctx |-> ctx]
Useless2(flag, a, b) == [kind |-> "Useless2", flag |-> flag, a |-> a, b |-> b]
BadArgument(option, value) ==
    [kind |-> "BadArgument", option |-> option, value |-> value]
FailedParse(value, source) ==
    [kind |-> "FailedParse", value |-> value, source |-> source]

----------------------------------------------------------------------------
(* Strings *)

Plus == "+"
NL == "\n"
CR == "\r"
Comma == ","

W_default == <<"d", "e", "f", "a", "u", "l", "t">>
W_relative == <<"r", "e", "l", "a", "t", "i", "v", "e">>
W_iso == <<"i", "s", "o">>
W_long_iso == <<"l", "o", "n", "g", "-", "i", "s", "o">>
W_full_iso == <<"f", "u", "l", "l", "-", "i", "s", "o">>

W_mod == <<"m", "o", "d">>
W_modified == <<"m", "o", "d", "i", "f", "i", "e", "d">>
W_ch == <<"c", "h">>
W_changed == <<"c", "h", "a", "n", "g", "e", "d">>
W_acc == <<"a", "c", "c">>
W_accessed == <<"a", "c", "c", "e", "s", "s", "e", "d">>
W_cr == <<"c", "r">>
W_created == <<"c", "r", "e", "a", "t", "e", "d">>

W_all == <<"a", "l", "l">>
W_age == <<"a", "g", "e">>
W_size == <<"s", "i", "z", "e">>

\* all strings over the alphabet A of length at most n
Strings(A, n) == UNION {[1..k -> A] : k \in 0..n}

StartsWith(s, c) == Len(s) > 0 /\ s[1] = c
EndsWith(s, c) == Len(s) > 0 /\ s[Len(s)] = c
Tail1(s) == SubSeq(s, 2, Len(s))
DropLast(s) == SubSeq(s, 1, Len(s) - 1)

\* position of the first c in s, 0 if there is none
IndexOf(s, c) ==
    IF \E i \in 1..Len(s) : s[i] = c
    THEN CHOOSE i \in 1..Len(s) : s[i] = c /\ \A j \in 1..(i - 1) : s[j] # c
    ELSE 0

\* str::split_inclusive('\n'): the pieces keep their newline; no piece after
\* a final newline, none for the empty string
RECURSIVE SplitInclusive(_)
SplitInclusive(s) ==
    IF s = <<>> THEN <<>>
    ELSE LET i == IndexOf(s, NL) IN
         IF i = 0 THEN <<s>>
         ELSE <<SubSeq(s, 1, i)>> \o SplitInclusive(SubSeq(s, i + 1, Len(s)))

\* what str::lines() does to each piece: strip "\n", and then a "\r"
StripLineEnding(piece) ==
    IF EndsWith(piece, NL)
    THEN LET l == DropLast(piece) IN IF EndsWith(l, CR) THEN DropLast(l) ELSE l
    ELSE piece

\* str::lines()
Lines(s) ==
    LET pieces == SplitInclusive(s) IN
    [i \in 1..Len(pieces) |-> StripLineEnding(pieces[i])]

\* Iterator::next() on the n-th call, as an Option
NextOf(seq, n) == IF n <= Len(seq) THEN Some(seq[n]) ELSE None

\* str::split(sep): always at least one piece; empty pieces are kept
RECURSIVE Split(_, _)
Split(s, sep) ==
    LET i == IndexOf(s, sep) IN
    IF i = 0 THEN <<s>>
    ELSE <<SubSeq(s, 1, i - 1)>> \o Split(SubSeq(s, i + 1, Len(s)), sep)

----------------------------------------------------------------------------
(* The inputs *)

\* Opts::default(): every count 0, every value None
DefaultOpts ==
    [long |-> 0, oneline |-> 0, grid |-> 0, tree |-> 0, across |-> 0,
     binary |-> 0, bytes |-> 0, inode |-> 0, links |-> 0, header |-> 0,
     blocksize |-> 0, time |-> None, group |-> 0, numeric |-> 0, mounts |-> 0,
     git |-> 0, no_git |-> 0, level |-> None, recurse |-> 0,
     extended |-> 0, security_context |-> 0,
     time_style |-> None,
     modified |-> 0, changed |-> 0, accessed |-> 0, created |-> 0,
     no_time |-> 0,
     git_repos |-> 0, git_repos_no_status |-> 0,
     smart_group |-> 0, octal |-> 0, file_flags |-> 0,
     no_permissions |-> 0, no_filesize |-> 0, no_user |-> 0,
     color_scale |-> None, color_scale_mode |-> "Gradient",
     width |-> None]

\* MockVars::default(): no variable is set
DefaultVars ==
    [COLUMNS |-> None, TIME_STYLE |-> None,
     EZA_GRID_ROWS |-> None, EXA_GRID_ROWS |-> None,
     EZA_OVERRIDE_GIT |-> None, EXA_OVERRIDE_GIT |-> None,
     EZA_MIN_LUMINANCE |-> None, EXA_MIN_LUMINANCE |-> None]

\* Vars::get
Get(v, key) == v[key]

\* Vars::get_with_fallback: the first key wins
GetWithFallback(v, name, fallback) ==
    IF IsSome(v[name]) THEN v[name] ELSE v[fallback]

\* Vars::source: the key that get_with_fallback took the value from
Source(v, name, fallback) ==
    IF IsSome(v[name]) THEN Some(name)
    ELSE IF IsSome(v[fallback]) THEN Some(fallback)
    ELSE None

----------------------------------------------------------------------------
(* TimeFormat::deduce *)

TF_Default == [fmt |-> "DefaultFormat"]
TF_Relative == [fmt |-> "Relative"]
TF_ISO == [fmt |-> "ISOFormat"]
TF_LongISO == [fmt |-> "LongISO"]
TF_FullISO == [fmt |-> "FullISO"]
TF_Custom(non_recent, recent) ==
    [fmt |-> "Custom", non_recent |-> non_recent, recent |-> recent]

\* a variant that forgets to cut the '+' off
CustomTimeFormat_KeepPlus(fmt) ==
    LET lines == Lines(fmt)
        line1 == NextOf(lines, 1)
        line2 == NextOf(lines, 2)
    IN  IF ~IsSome(line1) THEN Panic("empty_non_recent_format_msg")
        ELSE IF Unwrap(line1) = <<>> THEN Panic("empty_non_recent_format_msg")
        ELSE IF IsSome(line2) /\ Unwrap(line2) = <<>>
             THEN Panic("empty_recent_format_msg")
        ELSE Ok(TF_Custom(Unwrap(line1), line2))

\* the arm `fmt if fmt.starts_with('+')`
CustomTimeFormat(fmt) ==
    LET lines == Lines(Tail1(fmt))
        line1 == NextOf(lines, 1)
        line2 == NextOf(lines, 2)
    IN  IF ~IsSome(line1) THEN Panic("empty_non_recent_format_msg")
        ELSE IF Unwrap(line1) = <<>> THEN Panic("empty_non_recent_format_msg")
        ELSE IF IsSome(line2) /\ Unwrap(line2) = <<>>
             THEN Panic("empty_recent_format_msg")
        ELSE Ok(TF_Custom(Unwrap(line1), line2))

\* the match on the word
TimeFormatOfWord(word) ==
    IF word = W_default THEN Ok(TF_Default)
    ELSE IF word = W_relative THEN Ok(TF_Relative)
    ELSE IF word = W_iso THEN Ok(TF_ISO)
    ELSE IF word = W_long_iso THEN Ok(TF_LongISO)
    ELSE IF word = W_full_iso THEN Ok(TF_FullISO)
    ELSE IF StartsWith(word, Plus) THEN CustomTimeFormat(word)
    ELSE Err(BadArgument("time-style", word))

\* a variant that asks the environment before the flag
TimeFormatDeduce_EnvFirst(m, v) ==
    LET t == Get(v, "TIME_STYLE") IN
    IF IsSome(t) /\ Unwrap(t) # <<>> THEN TimeFormatOfWord(Unwrap(t))
    ELSE IF IsSome(m.time_style) THEN TimeFormatOfWord(Unwrap(m.time_style))
    ELSE Ok(TF_Default)

TimeFormatDeduce(m, v) ==
    IF IsSome(m.time_style) THEN TimeFormatOfWord(Unwrap(m.time_style))
    ELSE LET t == Get(v, "TIME_STYLE") IN
         IF IsSome(t) /\ Unwrap(t) # <<>> THEN TimeFormatOfWord(Unwrap(t))
         ELSE Ok(TF_Default)

----------------------------------------------------------------------------
(* TimeTypes::deduce *)

TimeTypes(mo, ch, ac, cr) ==
    [modified |-> mo, changed |-> ch, accessed |-> ac, created |-> cr]

\* TimeTypes::default()
TimeTypesDefault == TimeTypes(TRUE, FALSE, FALSE, FALSE)

\* the word alone: `word == "mod" || word == "modified"` and what follows
TimeTypesOfWord(word) ==
    IF word = W_mod \/ word = W_modified
    THEN Ok(TimeTypes(TRUE, FALSE, FALSE, FALSE))
    ELSE IF word = W_ch \/ word = W_changed
    THEN Ok(TimeTypes(FALSE, TRUE, FALSE, FALSE))
    ELSE IF word = W_acc \/ word = W_accessed
    THEN Ok(TimeTypes(FALSE, FALSE, TRUE, FALSE))
    ELSE IF word = W_cr \/ word = W_created
    THEN Ok(TimeTypes(FALSE, FALSE, FALSE, TRUE))
    ELSE Err(BadArgument("time", word))

\* a variant that reads the word before the flags that conflict with it
TimeTypesWithWord_WordFirst(m, word) ==
    IF ~IsOk(TimeTypesOfWord(word)) THEN TimeTypesOfWord(word)
    ELSE IF m.modified > 0 THEN Err(Useless("modified", TRUE, "time"))
    ELSE IF m.changed > 0 THEN Err(Useless("changed", TRUE, "time"))
    ELSE IF m.accessed > 0 THEN Err(Useless("accessed", TRUE, "time"))
    ELSE IF m.created > 0 THEN Err(Useless("created", TRUE, "time"))
    ELSE TimeTypesOfWord(word)

\* the branch `else if let Some(word) = possible_word`
TimeTypesWithWord(m, word) ==
    IF m.modified > 0 THEN Err(Useless("modified", TRUE, "time"))
    ELSE IF m.changed > 0 THEN Err(Useless("changed", TRUE, "time"))
    ELSE IF m.accessed > 0 THEN Err(Useless("accessed", TRUE, "time"))
    ELSE IF m.created > 0 THEN Err(Useless("created", TRUE, "time"))
    ELSE TimeTypesOfWord(word)

\* the branches without a word: the flags that are set, or the default
TimeTypesOfFlags(m) ==
    LET modified == m.modified > 0
        changed == m.changed > 0
        accessed == m.accessed > 0
        created == m.created > 0
    IN  IF modified \/ changed \/ accessed \/ created
        THEN Ok(TimeTypes(modified, changed, accessed, created))
        ELSE Ok(TimeTypesDefault)

\* a variant that looks at no_time after the word
TimeTypesDeduce_WordFirst(m) ==
    IF IsSome(m.time) THEN TimeTypesWithWord(m, Unwrap(m.time))
    ELSE IF m.no_time > 0 THEN Ok(TimeTypes(FALSE, FALSE, FALSE, FALSE))
    ELSE TimeTypesOfFlags(m)

TimeTypesDeduce(m) ==
    IF m.no_time > 0 THEN Ok(TimeTypes(FALSE, FALSE, FALSE, FALSE))
    ELSE IF IsSome(m.time) THEN TimeTypesWithWord(m, Unwrap(m.time))
    ELSE TimeTypesOfFlags(m)

----------------------------------------------------------------------------
(* Numbers in strings: str::parse for the integer types *)

Digits == {"0", "1", "2", "3", "4", "5", "6", "7", "8", "9"}

DigitValue(c) ==
    CASE c = "0" -> 0 [] c = "1" -> 1 [] c = "2" -> 2 [] c = "3" -> 3
      [] c = "4" -> 4 [] c = "5" -> 5 [] c = "6" -> 6 [] c = "7" -> 7
      [] c = "8" -> 8 [] c = "9" -> 9

RECURSIVE DecimalValue(_)
DecimalValue(ds) ==
    IF ds = <<>> THEN 0
    ELSE 10 * DecimalValue(DropLast(ds)) + DigitValue(ds[Len(ds)])

AllDigits(ds) == Len(ds) > 0 /\ \A i \in 1..Len(ds) : ds[i] \in Digits

\* str::parse::<isize>(): an optional sign, then one digit or more.  The
\* strings of the model are far shorter than the 19 digits isize overflows at.
ParseSigned(s) ==
    IF StartsWith(s, "-")
    THEN IF AllDigits(Tail1(s)) THEN Some(0 - DecimalValue(Tail1(s))) ELSE None
    ELSE IF StartsWith(s, Plus)
    THEN IF AllDigits(Tail1(s)) THEN Some(DecimalValue(Tail1(s))) ELSE None
    ELSE IF AllDigits(s) THEN Some(DecimalValue(s)) ELSE None

\* str::parse::<usize>(): an optional '+', then one digit or more
ParseUnsigned(s) ==
    IF StartsWith(s, Plus)
    THEN IF AllDigits(Tail1(s)) THEN Some(DecimalValue(Tail1(s))) ELSE None
    ELSE IF AllDigits(s) THEN Some(DecimalValue(s)) ELSE None

----------------------------------------------------------------------------
(* ColorScaleOptions::deduce *)

ColorScaleOptions(mode, min_luminance, size, age) ==
    [mode |-> mode, min_luminance |-> min_luminance, size |-> size, age |-> age]

\* the luminance that is used when the variable gives none
DefaultLuminance == 40

\* a variant with the range open at its ends
InLuminanceRange_Exclusive(l) == -100 < l /\ l < 100

\* (-100..=100).contains(&luminance)
InLuminanceRange(l) == -100 <= l /\ l <= 100

MinLuminance(v) ==
    LET var == GetWithFallback(v, "EZA_MIN_LUMINANCE", "EXA_MIN_LUMINANCE") IN
    IF IsSome(var)
    THEN LET parsed == ParseSigned(Unwrap(var)) IN
         IF IsSome(parsed) /\ InLuminanceRange(Unwrap(parsed))
         THEN Unwrap(parsed)
         ELSE DefaultLuminance
    ELSE DefaultLuminance

\* a variant in which a later "age" or "size" switches the other one off
ApplyColorScaleWord_Replace(options, word) ==
    IF word = W_all THEN Ok([options EXCEPT !.size = TRUE, !.age = TRUE])
    ELSE IF word = W_age THEN Ok([options EXCEPT !.age = TRUE, !.size = FALSE])
    ELSE IF word = W_size THEN Ok([options EXCEPT !.size = TRUE, !.age = FALSE])
    ELSE Err(BadArgument("color-scale", word))

\* one turn of the loop over the words: the match on the word
ApplyColorScaleWord(options, word) ==
    IF word = W_all THEN Ok([options EXCEPT !.size = TRUE, !.age = TRUE])
    ELSE IF word = W_age THEN Ok([options EXCEPT !.age = TRUE])
    ELSE IF word = W_size THEN Ok([options EXCEPT !.size = TRUE])
    ELSE Err(BadArgument("color-scale", word))

\* the loop `for word in words.split(',')`, left by the first error
RECURSIVE ColorScaleLoop(_, _, _)
ColorScaleLoop(options, words, i) ==
    IF i > Len(words) THEN Ok(options)
    ELSE LET r == ApplyColorScaleWord(options, words[i]) IN
         IF IsOk(r) THEN ColorScaleLoop(r.val, words, i + 1) ELSE r

ColorScaleDeduce(m, v) ==
    LET options == ColorScaleOptions(m.color_scale_mode, MinLuminance(v),
                                     FALSE, FALSE)
    IN  IF IsSome(m.color_scale)
        THEN ColorScaleLoop(options, Split(Unwrap(m.color_scale), Comma), 1)
        ELSE Ok(options)

----------------------------------------------------------------------------
(* TerminalWidth::deduce and RowThreshold::deduce *)

TW_Automatic == [width |-> "Automatic"]
TW_Set(n) == [width |-> "Set", n |-> n]

\* a character that stands for bytes that are no valid Unicode text
Invalid == "<FF>"

\* OsString::into_string().ok(): None unless the value is valid Unicode
IntoString(s) ==
    IF \E i \in 1..Len(s) : s[i] = Invalid THEN None ELSE Some(s)

\* Option::and_then(|s| s.into_string().ok())
AndThenIntoString(o) == IF IsSome(o) THEN IntoString(Unwrap(o)) ELSE None

\* a variant that asks COLUMNS before the width flag
TerminalWidthDeduce_EnvFirst(m, v) ==
    LET columns == AndThenIntoString(Get(v, "COLUMNS")) IN
    IF IsSome(columns)
    THEN LET parsed == ParseUnsigned(Unwrap(columns)) IN
         IF IsSome(parsed) THEN Ok(TW_Set(Unwrap(parsed)))
         ELSE Err(FailedParse(Unwrap(columns), "COLUMNS"))
    ELSE IF IsSome(m.width)
    THEN IF Unwrap(m.width) >= 1 THEN Ok(TW_Set(Unwrap(m.width)))
         ELSE Ok(TW_Automatic)
    ELSE Ok(TW_Automatic)

TerminalWidthDeduce(m, v) ==
    IF IsSome(m.width)
    THEN IF Unwrap(m.width) >= 1 THEN Ok(TW_Set(Unwrap(m.width)))
         ELSE Ok(TW_Automatic)
    ELSE LET columns == AndThenIntoString(Get(v, "COLUMNS")) IN
         IF IsSome(columns)
         THEN LET parsed == ParseUnsigned(Unwrap(columns)) IN
              IF IsSome(parsed) THEN Ok(TW_Set(Unwrap(parsed)))
              ELSE Err(FailedParse(Unwrap(columns), "COLUMNS"))
         ELSE Ok(TW_Automatic)

RT_AlwaysGrid == [rows |-> "AlwaysGrid"]
RT_MinimumRows(n) == [rows |-> "MinimumRows", n |-> n]

\* a variant that attributes a bad value to the legacy key
RowThresholdDeduce_LegacySource(v) ==
    LET columns == AndThenIntoString(
                       GetWithFallback(v, "EZA_GRID_ROWS", "EXA_GRID_ROWS"))
    IN  IF IsSome(columns)
        THEN LET parsed == ParseUnsigned(Unwrap(columns)) IN
             IF IsSome(parsed) THEN Ok(RT_MinimumRows(Unwrap(parsed)))
             ELSE Err(FailedParse(Unwrap(columns), "EXA_GRID_ROWS"))
        ELSE Ok(RT_AlwaysGrid)

RowThresholdDeduce(v) ==
    LET columns == AndThenIntoString(
                       GetWithFallback(v, "EZA_GRID_ROWS", "EXA_GRID_ROWS"))
    IN  IF IsSome(columns)
        THEN LET parsed == ParseUnsigned(Unwrap(columns)) IN
             IF IsSome(parsed) THEN Ok(RT_MinimumRows(Unwrap(parsed)))
             ELSE LET source == Source(v, "EZA_GRID_ROWS", "EXA_GRID_ROWS") IN
                  IF IsSome(source)
                  THEN Err(FailedParse(Unwrap(columns), Unwrap(source)))
                  ELSE Panic("unwrap on None")
        ELSE Ok(RT_AlwaysGrid)

----------------------------------------------------------------------------
(* SizeFormat, UserFormat, GroupFormat, Columns and TableOptions *)

SizeFormatDeduce(m) ==
    IF m.binary > 0 THEN "BinaryBytes"
    ELSE IF m.bytes > 0 THEN "JustBytes"
    ELSE "DecimalBytes"

UserFormatDeduce(m) == IF m.numeric > 0 THEN "Numeric" ELSE "Name"

GroupFormatDeduce(m) == IF m.smart_group > 0 THEN "Smart" ELSE "Regular"

\* xattr::ENABLED, a constant of the platform the program is built for
XATTR_ENABLED == TRUE

\* a variant that lets repos-no-status stand beside repos
ColumnsDeduce_BothRepos(m, v) ==
    LET time_types == TimeTypesDeduce(m) IN
    IF ~IsOk(time_types) THEN time_types
    ELSE
    LET no_git_env ==
            IsSome(GetWithFallback(v, "EXA_OVERRIDE_GIT", "EZA_OVERRIDE_GIT"))
        git == m.git > 0 /\ m.no_git = 0 /\ ~no_git_env
        subdir_git_repos == m.git_repos > 0 /\ m.no_git = 0 /\ ~no_git_env
        subdir_git_repos_no_stat ==
            /\ m.git_repos_no_status > 0
            /\ m.no_git = 0
            /\ ~no_git_env
    IN  Ok([time_types |-> time_types.val,
            inode |-> m.inode > 0,
            links |-> m.links > 0,
            blocksize |-> m.blocksize > 0,
            group |-> m.group > 0,
            git |-> git,
            subdir_git_repos |-> subdir_git_repos,
            subdir_git_repos_no_stat |-> subdir_git_repos_no_stat,
            octal |-> m.octal > 0,
            security_context |-> XATTR_ENABLED /\ m.security_context > 0,
            file_flags |-> m.file_flags > 0,
            permissions |-> m.no_permissions = 0,
            filesize |-> m.no_filesize = 0,
            user |-> m.no_user = 0])

ColumnsDeduce(m, v) ==
    LET time_types == TimeTypesDeduce(m) IN
    IF ~IsOk(time_types) THEN time_types
    ELSE
    LET no_git_env ==
            IsSome(GetWithFallback(v, "EXA_OVERRIDE_GIT", "EZA_OVERRIDE_GIT"))
        git == m.git > 0 /\ m.no_git = 0 /\ ~no_git_env
        subdir_git_repos == m.git_repos > 0 /\ m.no_git = 0 /\ ~no_git_env
        subdir_git_repos_no_stat ==
            /\ ~subdir_git_repos
            /\ m.git_repos_no_status > 0
            /\ m.no_git = 0
            /\ ~no_git_env
    IN  Ok([time_types |-> time_types.val,
            inode |-> m.inode > 0,
            links |-> m.links > 0,
            blocksize |-> m.blocksize > 0,
            group |-> m.group > 0,
            git |-> git,
            subdir_git_repos |-> subdir_git_repos,
            subdir_git_repos_no_stat |-> subdir_git_repos_no_stat,
            octal |-> m.octal > 0,
            security_context |-> XATTR_ENABLED /\ m.security_context > 0,
            file_flags |-> m.file_flags > 0,
            permissions |-> m.no_permissions = 0,
            filesize |-> m.no_filesize = 0,
            user |-> m.no_user = 0])

\* a variant that deduces the columns before the time format
TableOptionsDeduce_ColumnsFirst(m, v) ==
    LET columns == ColumnsDeduce(m, v) IN
    IF ~IsOk(columns) THEN columns
    ELSE LET time_format == TimeFormatDeduce(m, v) IN
         IF ~IsOk(time_format) THEN time_format
         ELSE Ok([size_format |-> SizeFormatDeduce(m),
                  time_format |-> time_format.val,
                  user_format |-> UserFormatDeduce(m),
                  group_format |-> GroupFormatDeduce(m),
                  columns |-> columns.val])

\* FlagsFormat::deduce reads the environment only and cannot fail; the
\* record below leaves its field out
TableOptionsDeduce(m, v) ==
    LET time_format == TimeFormatDeduce(m, v) IN
    IF ~IsOk(time_format) THEN time_format
    ELSE LET columns == ColumnsDeduce(m, v) IN
         IF ~IsOk(columns) THEN columns
         ELSE Ok([size_format |-> SizeFormatDeduce(m),
                  time_format |-> time_format.val,
                  user_format |-> UserFormatDeduce(m),
                  group_format |-> GroupFormatDeduce(m),
                  columns |-> columns.val])

----------------------------------------------------------------------------
(* grid::Options, details::Options and Mode *)

GridOptionsDeduce(m) == [across |-> m.across > 0]

DetailsOptions(table, header, m, color_scale) ==
    [table |-> table,
     header |-> header,
     xattr |-> XATTR_ENABLED /\ m.extended > 0,
     secattr |-> XATTR_ENABLED /\ m.security_context > 0,
     mounts |-> m.mounts > 0,
     color_scale |-> color_scale]

DeduceTree(m, v) ==
    LET color_scale == ColorScaleDeduce(m, v) IN
    IF ~IsOk(color_scale) THEN color_scale
    ELSE Ok(DetailsOptions(None, FALSE, m, color_scale.val))

\* a variant that makes the strict checks when strict is off
DeduceLong_ChecksInverted(m, v, s) ==
    IF ~s /\ m.across > 0 /\ m.grid = 0
    THEN Err(Useless("across", TRUE, "long"))
    ELSE IF ~s /\ m.oneline > 0
    THEN Err(Useless("one-line", TRUE, "long"))
    ELSE LET table == TableOptionsDeduce(m, v) IN
         IF ~IsOk(table) THEN table
         ELSE LET color_scale == ColorScaleDeduce(m, v) IN
              IF ~IsOk(color_scale) THEN color_scale
              ELSE Ok(DetailsOptions(Some(table.val), m.header > 0, m,
                                     color_scale.val))

\* a variant that tests oneline before across
DeduceLong_OnelineFirst(m, v, s) ==
    IF s /\ m.oneline > 0
    THEN Err(Useless("one-line", TRUE, "long"))
    ELSE IF s /\ m.across > 0 /\ m.grid = 0
    THEN Err(Useless("across", TRUE, "long"))
    ELSE LET table == TableOptionsDeduce(m, v) IN
         IF ~IsOk(table) THEN table
         ELSE LET color_scale == ColorScaleDeduce(m, v) IN
              IF ~IsOk(color_scale) THEN color_scale
              ELSE Ok(DetailsOptions(Some(table.val), m.header > 0, m,
                                     color_scale.val))

DeduceLong(m, v, s) ==
    IF s /\ m.across > 0 /\ m.grid = 0
    THEN Err(Useless("across", TRUE, "long"))
    ELSE IF s /\ m.oneline > 0
    THEN Err(Useless("one-line", TRUE, "long"))
    ELSE LET table == TableOptionsDeduce(m, v) IN
         IF ~IsOk(table) THEN table
         ELSE LET color_scale == ColorScaleDeduce(m, v) IN
              IF ~IsOk(color_scale) THEN color_scale
              ELSE Ok(DetailsOptions(Some(table.val), m.header > 0, m,
                                     color_scale.val))

\* the list of (is set, name) pairs the strict check goes through, in order
LongFlags(m) ==
    << <<m.binary > 0, "binary">>,
       <<m.bytes > 0, "bytes">>,
       <<m.inode > 0, "inode">>,
       <<m.links > 0, "links">>,
       <<m.header > 0, "header">>,
       <<m.blocksize > 0, "blocksize">>,
       <<IsSome(m.time), "time">>,
       <<m.group > 0, "group">>,
       <<m.numeric > 0, "numeric">>,
       <<m.mounts > 0, "mounts">> >>

\* a variant of the loop that stops one entry early
RECURSIVE FirstSet_StopEarly(_, _)
FirstSet_StopEarly(options, i) ==
    IF i >= Len(options) THEN None
    ELSE IF options[i][1] THEN Some(options[i][2])
    ELSE FirstSet_StopEarly(options, i + 1)

\* the loop `for option in &[...]`: the name of the first pair that is set
RECURSIVE FirstSet(_, _)
FirstSet(options, i) ==
    IF i > Len(options) THEN None
    ELSE IF options[i][1] THEN Some(options[i][2])
    ELSE FirstSet(options, i + 1)

\* a variant that examines git before the list of flags
StrictCheckLongFlags_GitFirst(m) ==
    LET found == FirstSet(LongFlags(m), 1) IN
    IF m.git > 0 /\ m.no_git = 0 THEN Err(Useless("git", FALSE, "long"))
    ELSE IF IsSome(found) THEN Err(Useless(Unwrap(found), FALSE, "long"))
    ELSE IF IsSome(m.level) /\ m.recurse = 0 /\ m.tree = 0
    THEN Err(Useless2("level", "recurse", "tree"))
    ELSE Ok("unit")

StrictCheckLongFlags(m) ==
    LET found == FirstSet(LongFlags(m), 1) IN
    IF IsSome(found) THEN Err(Useless(Unwrap(found), FALSE, "long"))
    ELSE IF m.git > 0 /\ m.no_git = 0 THEN Err(Useless("git", FALSE, "long"))
    ELSE IF IsSome(m.level) /\ m.recurse = 0 /\ m.tree = 0
    THEN Err(Useless2("level", "recurse", "tree"))
    ELSE Ok("unit")

M_Grid(grid) == [mode |-> "Grid", grid |-> grid]
M_Details(details) == [mode |-> "Details", details |-> details]
M_GridDetails(details, row_threshold) ==
    [mode |-> "GridDetails", details |-> details,
     row_threshold |-> row_threshold]
M_Lines == [mode |-> "Lines"]

\* the branch `if matches.long > 0`
ModeLong(m, v, s) ==
    LET details == DeduceLong(m, v, s) IN
    IF ~IsOk(details) THEN details
    ELSE IF m.grid > 0
    THEN LET row_threshold == RowThresholdDeduce(v) IN
         IF ~IsOk(row_threshold) THEN row_threshold
         ELSE Ok(M_GridDetails(details.val, row_threshold.val))
    ELSE Ok(M_Details(details.val))

\* a variant that tests oneline before tree
ModeNotLong_OnelineFirst(m, v, s) ==
    LET check == IF s THEN StrictCheckLongFlags(m) ELSE Ok("unit") IN
    IF ~IsOk(check) THEN check
    ELSE IF m.oneline > 0 THEN Ok(M_Lines)
    ELSE IF m.tree > 0
    THEN LET details == DeduceTree(m, v) IN
         IF ~IsOk(details) THEN details ELSE Ok(M_Details(details.val))
    ELSE Ok(M_Grid(GridOptionsDeduce(m)))

\* what follows the long branch: tree, then oneline, then the grid
ModeNotLong(m, v, s) ==
    LET check == IF s THEN StrictCheckLongFlags(m) ELSE Ok("unit") IN
    IF ~IsOk(check) THEN check
    ELSE IF m.tree > 0
    THEN LET details == DeduceTree(m, v) IN
         IF ~IsOk(details) THEN details ELSE Ok(M_Details(details.val))
    ELSE IF m.oneline > 0 THEN Ok(M_Lines)
    ELSE Ok(M_Grid(GridOptionsDeduce(m)))

ModeDeduce(m, v, s) ==
    IF ~(m.long > 0 \/ m.oneline > 0 \/ m.grid > 0 \/ m.tree > 0)
    THEN LET check == IF s THEN StrictCheckLongFlags(m) ELSE Ok("unit") IN
         IF ~IsOk(check) THEN check
         ELSE Ok(M_Grid(GridOptionsDeduce(m)))
    ELSE IF m.long > 0 THEN ModeLong(m, v, s)
    ELSE ModeNotLong(m, v, s)

----------------------------------------------------------------------------
(* The inputs the model draws *)

Option(S) == {None} \cup {Some(x) : x \in S}

\* a flag is a count of its occurrences; the code asks only whether it is 0
Counts == {0, 1}

W_nice == <<"n", "i", "c", "e">>

\* time styles: the named ones, '+' followed by any text of letters, line
\* feeds and carriage returns, and words that are neither
CustomStyles == {<<Plus>> \o t : t \in Strings({"a", NL, CR}, MaxLen)}
NamedStyles == {W_default, W_relative, W_iso, W_long_iso, W_full_iso}
OtherStyles == {<<>>, W_nice, <<"I", "S", "O">>, <<"a", Plus>>}
TimeStyleWords == NamedStyles \cup CustomStyles \cup OtherStyles
FewStyles == {<<>>, W_iso, W_nice, <<Plus, "a">>}

TimeWords ==
    {W_mod, W_modified, W_ch, W_changed, W_acc, W_accessed, W_cr, W_created,
     W_nice, <<>>}

\* --color-scale values: lists of tokens joined by commas
W_hue == <<"h", "u", "e">>
Tokens == {W_all, W_age, W_size, <<>>, <<"a", "l">>, W_hue}
TokenLists == UNION {[1..k -> Tokens] : k \in 1..MaxTokens}

RECURSIVE Join(_)
Join(ts) ==
    IF Len(ts) = 1 THEN ts[1]
    ELSE ts[1] \o <<Comma>> \o Join(Tail(ts))

ColorScaleWords == {Join(ts) : ts \in TokenLists}

\* numbers in the environment: an optional sign and digits or junk
NumberWords ==
    {sign \o d : sign \in {<<>>, <<"-">>, <<Plus>>},
                 d \in Strings({"0", "1", "x"}, MaxDigits)}
FewNumbers == {<<"6", "0">>, <<"5", "0", "0">>, <<"-", "1", "0", "1">>, <<"x">>}

\* the command line gave --long and --oneline in some order, or not at all
Rightmost(m) ==
    IF m.long > 0 /\ m.oneline > 0 THEN {"long", "oneline"}
    ELSE IF m.long > 0 THEN {"long"}
    ELSE IF m.oneline > 0 THEN {"oneline"}
    ELSE {"none"}

NotCalled ==
    /\ strict \in BOOLEAN
    /\ rightmost \in Rightmost(matches)
    /\ called = "none"
    /\ result = Ok("unit")

InitTimeFormat ==
    /\ \E flag \in Option(TimeStyleWords), env \in Option(FewStyles),
          swap \in BOOLEAN :
          /\ matches = [DefaultOpts EXCEPT
                            !.time_style = IF swap THEN env ELSE flag]
          /\ vars = [DefaultVars EXCEPT
                            !.TIME_STYLE = IF swap THEN flag ELSE env]
    /\ NotCalled

InitTimeTypes ==
    /\ \E word \in Option(TimeWords), mo \in Counts, ch \in Counts,
          ac \in Counts, cr \in Counts, nt \in Counts :
          matches = [DefaultOpts EXCEPT !.time = word, !.modified = mo,
                        !.changed = ch, !.accessed = ac, !.created = cr,
                        !.no_time = nt]
    /\ vars = DefaultVars
    /\ NotCalled

InitColorScale ==
    /\ \E words \in Option(ColorScaleWords), mode \in {"Fixed", "Gradient"} :
          matches = [DefaultOpts EXCEPT !.color_scale = words,
                                        !.color_scale_mode = mode]
    /\ \E lum \in Option(FewNumbers) :
          vars = [DefaultVars EXCEPT !.EZA_MIN_LUMINANCE = lum]
    /\ NotCalled

InitLuminance ==
    /\ \E words \in Option({W_size, W_hue}) :
          matches = [DefaultOpts EXCEPT !.color_scale = words]
    /\ \E one \in Option(NumberWords), other \in Option(FewNumbers),
          swap \in BOOLEAN :
          vars = [DefaultVars EXCEPT
                     !.EZA_MIN_LUMINANCE = IF swap THEN other ELSE one,
                     !.EXA_MIN_LUMINANCE = IF swap THEN one ELSE other]
    /\ NotCalled

\* flags and values set on top of the view-selecting flags
ExtraFlags ==
    {"binary", "bytes", "inode", "links", "header", "blocksize", "group",
     "numeric", "mounts", "git", "no_git", "recurse", "modified", "no_time"}
ExtraOptions ==
    {[field |-> "time", value |-> Some(W_mod)],
     [field |-> "time", value |-> Some(W_nice)],
     [field |-> "time_style", value |-> Some(W_nice)],
     [field |-> "time_style", value |-> Some(<<Plus>>)],
     [field |-> "color_scale", value |-> Some(W_hue)],
     [field |-> "level", value |-> Some(<<"1">>)]}
ExtraVars ==
    {[field |-> "EZA_GRID_ROWS", value |-> Some(<<"1">>)],
     [field |-> "EZA_GRID_ROWS", value |-> Some(<<"x">>)],
     [field |-> "EXA_GRID_ROWS", value |-> Some(<<"2">>)],
     [field |-> "EXA_GRID_ROWS", value |-> Some(<<"x">>)]}

\* the sets of settings of distinct fields, n at most
Settings(S, n) ==
    {O \in SUBSET S :
        /\ Cardinality(O) <= n
        /\ \A a \in O, b \in O : a.field = b.field => a = b}

WithFlags(m, F) == [f \in DOMAIN m |-> IF f \in F THEN 1 ELSE m[f]]
WithValues(r, O) ==
    [f \in DOMAIN r |->
        IF \E o \in O : o.field = f
        THEN (CHOOSE o \in O : o.field = f).value
        ELSE r[f]]

\* the choices of at most MaxExtra settings in all
ExtraChoices ==
    LET Fs == {F \in SUBSET ExtraFlags : Cardinality(F) <= MaxExtra} IN
    {c \in Fs \X Settings(ExtraOptions, MaxExtra)
              \X Settings(ExtraVars, MaxExtra) :
        Cardinality(c[1]) + Cardinality(c[2]) + Cardinality(c[3]) <= MaxExtra}

InitMode ==
    /\ \E long \in Counts, oneline \in Counts, grid \in Counts,
          tree \in Counts, across \in Counts, c \in ExtraChoices :
          /\ matches = WithValues(WithFlags(
                          [DefaultOpts EXCEPT !.long = long,
                              !.oneline = oneline, !.grid = grid,
                              !.tree = tree, !.across = across], c[1]), c[2])
          /\ vars = WithValues(DefaultVars, c[3])
    /\ NotCalled

\* values of COLUMNS and of the grid-rows variables: digits, a sign that
\* no unsigned number has, bytes that are no text
EnvTexts ==
    Strings({"0", "1", "-", Invalid}, MaxDigits)
        \cup {<<Plus, "1">>, <<"8", "0">>, <<Plus>>}
FewTexts == {<<"2">>, <<"-">>, <<Invalid>>}

InitWidth ==
    /\ \E width \in Option(0..MaxWidth) :
          matches = [DefaultOpts EXCEPT !.width = width]
    /\ \E columns \in Option(EnvTexts) :
          vars = [DefaultVars EXCEPT !.COLUMNS = columns]
    /\ NotCalled

InitGridRows ==
    /\ \E long \in Counts, oneline \in Counts, grid \in Counts,
          tree \in Counts :
          matches = [DefaultOpts EXCEPT !.long = long, !.oneline = oneline,
                                        !.grid = grid, !.tree = tree]
    /\ \E one \in Option(EnvTexts), other \in Option(FewTexts),
          swap \in BOOLEAN :
          vars = [DefaultVars EXCEPT
                     !.EZA_GRID_ROWS = IF swap THEN other ELSE one,
                     !.EXA_GRID_ROWS = IF swap THEN one ELSE other]
    /\ NotCalled

InitColumns ==
    /\ \E git \in Counts, no_git \in Counts, git_repos \in Counts,
          git_repos_no_status \in Counts, no_time \in Counts,
          time \in Option({W_acc, W_nice}) :
          matches = [DefaultOpts EXCEPT !.git = git, !.no_git = no_git,
                        !.git_repos = git_repos,
                        !.git_repos_no_status = git_repos_no_status,
                        !.no_time = no_time, !.time = time]
    /\ \E eza \in Option({<<>>, <<"1">>}), exa \in Option({<<>>, <<"1">>}) :
          vars = [DefaultVars EXCEPT !.EZA_OVERRIDE_GIT = eza,
                                     !.EXA_OVERRIDE_GIT = exa]
    /\ NotCalled

Init ==
    \/ InitWidth
    \/ InitGridRows
    \/ InitColumns
    \/ InitTimeFormat
    \/ InitTimeTypes
    \/ InitColorScale
    \/ InitLuminance
    \/ InitMode

----------------------------------------------------------------------------
(* The calls *)

Call(name, value) ==
    /\ called = "none"
    /\ called' = name
    /\ result' = value
    /\ UNCHANGED <<matches, vars, strict, rightmost>>

DeduceMode == Call("Mode", ModeDeduce(matches, vars, strict))
DeduceTerminalWidth == Call("TerminalWidth", TerminalWidthDeduce(matches, vars))
DeduceRowThreshold == Call("RowThreshold", RowThresholdDeduce(vars))
DeduceTableOptions == Call("TableOptions", TableOptionsDeduce(matches, vars))
DeduceColumns == Call("Columns", ColumnsDeduce(matches, vars))
DeduceTimeFormat == Call("TimeFormat", TimeFormatDeduce(matches, vars))
DeduceTimeTypes == Call("TimeTypes", TimeTypesDeduce(matches))
DeduceColorScale == Call("ColorScaleOptions", ColorScaleDeduce(matches, vars))

Next ==
    \/ DeduceMode
    \/ DeduceTerminalWidth
    \/ DeduceRowThreshold
    \/ DeduceTableOptions
    \/ DeduceColumns
    \/ DeduceTimeFormat
    \/ DeduceTimeTypes
    \/ DeduceColorScale

Spec == Init /\ [][Next]_state

SpecTimeFormat == InitTimeFormat /\ [][Next]_state
SpecTimeTypes == InitTimeTypes /\ [][Next]_state
SpecColorScale == (InitColorScale \/ InitLuminance) /\ [][Next]_state
SpecMode == InitMode /\ [][Next]_state
SpecWidth == InitWidth /\ [][Next]_state
SpecGridRows == InitGridRows /\ [][Next]_state
SpecColumns == InitColumns /\ [][Next]_state

----------------------------------------------------------------------------
(* Properties *)

ErrorKinds == {"BadArgument", "FailedParse", "Useless", "Useless2"}

\* C1: every deduce call returns a configuration value or an OptionsError
\* of one of the four kinds; no input makes it abort.
C1_Total ==
    called # "none" =>
        \/ IsOk(result)
        \/ IsErr(result) /\ result.err.kind \in ErrorKinds

----------------------------------------------------------------------------

LongFlagNames ==
    <<"binary", "bytes", "inode", "links", "header", "blocksize", "time",
      "group", "numeric", "mounts">>

\* the flag record has this flag set and everything else at its default
OnlyFlagSet(m, name) ==
    IF name = "time"
    THEN IsSome(m.time) /\ [m EXCEPT !.time = None] = DefaultOpts
    ELSE m[name] > 0 /\ [m EXCEPT ![name] = 0] = DefaultOpts

\* C2: with one flag of the list alone set and no view flag, Mode::deduce
\* returns Useless(name, false, "long") when strict and the plain grid
\* when not strict.
C2_StrictRoundTrip ==
    \A i \in 1..Len(LongFlagNames) :
        (called = "Mode" /\ OnlyFlagSet(matches, LongFlagNames[i])) =>
            result = IF strict
                     THEN Err(Useless(LongFlagNames[i], FALSE, "long"))
                     ELSE Ok(M_Grid([across |-> FALSE]))

C2_Witness ==
    /\ called = "Mode"
    /\ strict
    /\ OnlyFlagSet(matches, "mounts")
    /\ result = Err(Useless("mounts", FALSE, "long"))

----------------------------------------------------------------------------

\* the sub-deductions the chosen view needs all succeed
SubDeductionsOk(m, v) ==
    IF m.long > 0
    THEN /\ IsOk(TableOptionsDeduce(m, v))
         /\ IsOk(ColorScaleDeduce(m, v))
         /\ m.grid > 0 => IsOk(RowThresholdDeduce(v))
    ELSE m.tree > 0 => IsOk(ColorScaleDeduce(m, v))

----------------------------------------------------------------------------

\* C4: with --long and --oneline both given, the one given last decides:
\* Lines when --oneline is last, a details view when --long is last.
C4_RightmostWins ==
    (/\ called = "Mode"
     /\ matches.long > 0 /\ matches.oneline > 0
     /\ IsOk(result)) =>
        /\ rightmost = "oneline" => result.val = M_Lines
        /\ rightmost = "long" => result.val.mode \in {"Details", "GridDetails"}

----------------------------------------------------------------------------

NoTimeTypes == TimeTypes(FALSE, FALSE, FALSE, FALSE)

\* C5: with no_time set TimeTypes::deduce returns the four fields false,
\* whatever the selector word and the four flags are.
C5_NoTime ==
    (called = "TimeTypes" /\ matches.no_time > 0) => result = Ok(NoTimeTypes)

C5_Witness ==
    /\ called = "TimeTypes"
    /\ matches.no_time > 0
    /\ matches.time = Some(W_nice)
    /\ matches.modified > 0
    /\ result = Ok(NoTimeTypes)

----------------------------------------------------------------------------

TimeFlagOrder == <<"modified", "changed", "accessed", "created">>

\* C6: without no_time and with a selector word, the first set flag among
\* modified, changed, accessed, created is reported as Useless(name, true,
\* "time"), for every word, recognized or not.
C6_Conflict ==
    \A i \in 1..Len(TimeFlagOrder) :
        (/\ called = "TimeTypes"
         /\ matches.no_time = 0
         /\ IsSome(matches.time)
         /\ matches[TimeFlagOrder[i]] > 0
         /\ \A j \in 1..(i - 1) : matches[TimeFlagOrder[j]] = 0) =>
            result = Err(Useless(TimeFlagOrder[i], TRUE, "time"))

C6_Witness ==
    /\ called = "TimeTypes"
    /\ matches.no_time = 0
    /\ matches.time = Some(W_nice)
    /\ matches.modified = 0 /\ matches.changed > 0 /\ matches.created > 0
    /\ result = Err(Useless("changed", TRUE, "time"))

----------------------------------------------------------------------------

\* the word TimeFormat::deduce is to go by: the flag, else a non-empty
\* TIME_STYLE, else none
ChosenStyle ==
    IF IsSome(matches.time_style) THEN matches.time_style
    ELSE IF IsSome(vars.TIME_STYLE) /\ Unwrap(vars.TIME_STYLE) # <<>>
         THEN vars.TIME_STYLE
    ELSE None

NamedFormat(word) ==
    CASE word = W_default -> TF_Default
      [] word = W_relative -> TF_Relative
      [] word = W_iso -> TF_ISO
      [] word = W_long_iso -> TF_LongISO
      [] word = W_full_iso -> TF_FullISO

\* C7: the time-style flag alone decides when it is present; else a
\* non-empty TIME_STYLE; else the result is DefaultFormat.  A word that is
\* no named style and does not start with '+' gives
\* BadArgument("time-style", word).
C7_Precedence ==
    called = "TimeFormat" =>
        IF ~IsSome(ChosenStyle) THEN result = Ok(TF_Default)
        ELSE LET word == Unwrap(ChosenStyle) IN
             IF word \in NamedStyles THEN result = Ok(NamedFormat(word))
             ELSE IF StartsWith(word, Plus)
             THEN IsPanic(result) \/ (IsOk(result) /\ result.val.fmt = "Custom")
             ELSE result = Err(BadArgument("time-style", word))

C7_Witness ==
    /\ called = "TimeFormat"
    /\ matches.time_style = Some(W_nice)
    /\ vars.TIME_STYLE = Some(W_iso)
    /\ result = Err(BadArgument("time-style", W_nice))

----------------------------------------------------------------------------

\* a line ends at "\n" or at "\r\n"
Terminators == {<<NL>>, <<CR, NL>>}

\* the text of a line: no line feed in it
IsLineText(l) == \A k \in 1..Len(l) : l[k] # NL

\* the non-empty parts of w that can be a line
LinesIn(w) ==
    {l \in {SubSeq(w, i, j) : i \in 1..Len(w), j \in 1..Len(w)} :
        l # <<>> /\ IsLineText(l)}

IsPrefix(p, w) == Len(p) <= Len(w) /\ SubSeq(w, 1, Len(p)) = p

\* C8: for the word '+' L1 with L1 a non-empty line, the result is
\* Custom{L1, None} when nothing follows L1 or only its line ending, and
\* Custom{L1, Some(L2)} when a non-empty line L2 follows; the '+' is not
\* part of L1 and what follows the second line is ignored.  (A line is
\* what str::lines makes of it: the carriage return of a "\r\n" ending
\* belongs to the ending.)
C8_Custom ==
    (called = "TimeFormat" /\ IsSome(ChosenStyle)) =>
        LET w == Unwrap(ChosenStyle) IN
        \A L1 \in LinesIn(w) :
            /\ w = <<Plus>> \o L1 => result = Ok(TF_Custom(L1, None))
            /\ \A t \in Terminators :
                 ~EndsWith(L1, CR) =>
                    /\ w = <<Plus>> \o L1 \o t =>
                           result = Ok(TF_Custom(L1, None))
                    /\ \A L2 \in LinesIn(w) :
                         /\ w = <<Plus>> \o L1 \o t \o L2 =>
                                result = Ok(TF_Custom(L1, Some(L2)))
                         /\ \A t2 \in Terminators :
                              (/\ ~EndsWith(L2, CR)
                               /\ IsPrefix(<<Plus>> \o L1 \o t \o L2 \o t2, w))
                              => result = Ok(TF_Custom(L1, Some(L2)))

C8_Witness ==
    /\ called = "TimeFormat"
    /\ matches.time_style = Some(<<Plus, "a", NL, "a", "a", NL, "a">>)
    /\ result = Ok(TF_Custom(<<"a">>, Some(<<"a", "a">>)))

----------------------------------------------------------------------------

\* the luminance variable as the key pair gives it: the current key first
LuminanceValue ==
    IF IsSome(vars.EZA_MIN_LUMINANCE) THEN vars.EZA_MIN_LUMINANCE
    ELSE vars.EXA_MIN_LUMINANCE

\* values of the variable and the luminance each of them is to give
LuminanceCases ==
    {<<(<<"1", "0", "0">>), 100>>,
     <<(<<"-", "1", "0", "0">>), -100>>,
     <<(<<"1", "0", "1">>), 40>>,
     <<(<<"-", "1", "0", "1">>), 40>>,
     <<(<<"5", "0", "0">>), 40>>,
     <<(<<"6", "0">>), 60>>,
     <<(<<"0">>), 0>>,
     <<(<<"x">>), 40>>,
     <<(<<"1", "x">>), 40>>,
     <<(<<"-">>), 40>>,
     <<(<<>>), 40>>}

GoodTokens == {W_all, W_age, W_size}

\* C9: min_luminance is always within [-100, 100]: the value of the
\* variable when it parses as an integer of that range, 40 when the
\* variable is absent, unparsable or out of range; the call fails only for
\* a bad --color-scale token, never for the luminance.
C9_Luminance ==
    called = "ColorScaleOptions" =>
        LET parsed == IF IsSome(LuminanceValue)
                      THEN ParseSigned(Unwrap(LuminanceValue)) ELSE None
            expected == IF IsSome(parsed) /\ Unwrap(parsed) \in -100..100
                        THEN Unwrap(parsed) ELSE 40
        IN  /\ IsOk(result) \/ IsErr(result)
            /\ IsOk(result) =>
                  /\ result.val.min_luminance \in -100..100
                  /\ result.val.min_luminance = expected
                  /\ \A c \in LuminanceCases :
                        LuminanceValue = Some(c[1]) =>
                            result.val.min_luminance = c[2]
            /\ IsErr(result) =>
                  /\ result.err.kind = "BadArgument"
                  /\ result.err.option = "color-scale"
                  /\ result.err.value \notin GoodTokens
            /\ matches.color_scale \in {None, Some(W_size)} => IsOk(result)

C9_Witness ==
    /\ called = "ColorScaleOptions"
    /\ vars.EZA_MIN_LUMINANCE = Some(<<"-", "1", "0", "0">>)
    /\ vars.EXA_MIN_LUMINANCE = Some(<<"6", "0">>)
    /\ IsOk(result)
    /\ result.val.min_luminance = -100

----------------------------------------------------------------------------

\* the token lists and the --color-scale value each of them spells
JoinTable == {<<ts, Join(ts)>> : ts \in TokenLists}

\* C10: for a list of tokens all among all/age/size, size is set iff the
\* list has "size" or "all" and age iff it has "age" or "all", whatever the
\* order and the repetitions; with a token outside the set (the empty one
\* included) the result is BadArgument("color-scale", t) for the first
\* such t; with no value both are false.
C10_Tokens ==
    called = "ColorScaleOptions" =>
        /\ matches.color_scale = None =>
              IsOk(result) /\ ~result.val.size /\ ~result.val.age
        /\ \A p \in JoinTable :
              matches.color_scale = Some(p[2]) =>
                  LET ts == p[1]
                      bad == {i \in 1..Len(ts) : ts[i] \notin GoodTokens}
                  IN  IF bad = {}
                      THEN /\ IsOk(result)
                           /\ result.val.size =
                                  (\E i \in 1..Len(ts) : ts[i] \in {W_size, W_all})
                           /\ result.val.age =
                                  (\E i \in 1..Len(ts) : ts[i] \in {W_age, W_all})
                      ELSE LET first == CHOOSE i \in bad :
                                            \A j \in bad : i <= j
                           IN  result = Err(BadArgument("color-scale", ts[first]))

C10_Witness ==
    /\ called = "ColorScaleOptions"
    /\ matches.color_scale = Some(Join(<<W_size, W_age, W_size>>))
    /\ IsOk(result)
    /\ result.val.size /\ result.val.age

----------------------------------------------------------------------------

\* texts of numbers in the environment and the number each of them is
WidthCases ==
    {<<(<<"8", "0">>), 80>>, <<(<<"0">>), 0>>, <<(<<"1">>), 1>>,
     <<(<<"1", "0">>), 10>>, <<(<<"0", "1", "1">>), 11>>,
     <<(<<Plus, "1">>), 1>>}

\* texts that are no unsigned number
NotNumbers == {<<>>, <<"-">>, <<"-", "1">>, <<"1", "-">>, <<Plus>>}

IsText(s) == \A i \in 1..Len(s) : s[i] # Invalid

\* what the width flag alone decides
OfWidthFlag(w) == IF w >= 1 THEN Ok(TW_Set(w)) ELSE Ok(TW_Automatic)

\* what a COLUMNS text decides
OfColumnsText(text) ==
    LET parsed == ParseUnsigned(text) IN
    IF IsSome(parsed) THEN Ok(TW_Set(Unwrap(parsed)))
    ELSE Err(FailedParse(text, "COLUMNS"))

\* C11 as stated: flag > COLUMNS > Automatic; with the flag the result is
\* Set(w) for w >= 1 and Automatic for 0 whatever COLUMNS holds; without
\* the flag a present COLUMNS gives Set(n) if it parses and FailedParse
\* otherwise; with neither the result is Automatic.
C11_Original ==
    called = "TerminalWidth" =>
        IF IsSome(matches.width) THEN result = OfWidthFlag(Unwrap(matches.width))
        ELSE IF IsSome(vars.COLUMNS) THEN result = OfColumnsText(Unwrap(vars.COLUMNS))
        ELSE result = Ok(TW_Automatic)

\* C11 (amended): flag > COLUMNS > Automatic; with the flag the result is
\* Set(w) for w >= 1 and Automatic for 0 whatever COLUMNS holds; without
\* the flag a COLUMNS that is valid Unicode gives Set(n) if it parses as
\* an unsigned integer and FailedParse(value, COLUMNS) otherwise, and a
\* COLUMNS that is not valid Unicode counts as absent; with COLUMNS absent
\* the result is Automatic.
C11_Priority ==
    called = "TerminalWidth" =>
        IF IsSome(matches.width) THEN result = OfWidthFlag(Unwrap(matches.width))
        ELSE IF IsSome(vars.COLUMNS) /\ IsText(Unwrap(vars.COLUMNS))
        THEN /\ result = OfColumnsText(Unwrap(vars.COLUMNS))
             /\ \A c \in WidthCases :
                   vars.COLUMNS = Some(c[1]) => result = Ok(TW_Set(c[2]))
             /\ \A t \in NotNumbers :
                   vars.COLUMNS = Some(t) =>
                       result = Err(FailedParse(t, "COLUMNS"))
        ELSE result = Ok(TW_Automatic)

\* the flag is given and COLUMNS is no number: the flag decides
C11_Witness ==
    /\ called = "TerminalWidth"
    /\ matches.width = Some(2)
    /\ vars.COLUMNS = Some(<<"-", "1">>)
    /\ result = Ok(TW_Set(2))

----------------------------------------------------------------------------

\* the no-git flag, or the override variable under either key
GitDisabled ==
    \/ matches.no_git > 0
    \/ IsSome(vars.EZA_OVERRIDE_GIT)
    \/ IsSome(vars.EXA_OVERRIDE_GIT)

\* C12: in every Columns value subdir_git_repos and subdir_git_repos_no_stat
\* are never both true, and with both the repos and the repos-no-status
\* flag set subdir_git_repos_no_stat is false; with the no-git flag set or
\* the override variable present under either key, git, subdir_git_repos
\* and subdir_git_repos_no_stat are all false whatever the flags; without
\* them git and subdir_git_repos follow their flags.
C12_GitColumns ==
    called = "Columns" /\ IsOk(result) =>
        LET c == result.val IN
        /\ ~(c.subdir_git_repos /\ c.subdir_git_repos_no_stat)
        /\ matches.git_repos > 0 /\ matches.git_repos_no_status > 0 =>
              ~c.subdir_git_repos_no_stat
        /\ GitDisabled =>
              ~c.git /\ ~c.subdir_git_repos /\ ~c.subdir_git_repos_no_stat
        /\ ~GitDisabled =>
              /\ c.git = (matches.git > 0)
              /\ c.subdir_git_repos = (matches.git_repos > 0)
              /\ matches.git_repos = 0 =>
                    c.subdir_git_repos_no_stat = (matches.git_repos_no_status > 0)

\* both repos flags are set and nothing disables git
C12_Witness ==
    /\ called = "Columns"
    /\ matches.git_repos > 0 /\ matches.git_repos_no_status > 0
    /\ ~GitDisabled
    /\ IsOk(result)
    /\ result.val.subdir_git_repos /\ ~result.val.subdir_git_repos_no_stat

----------------------------------------------------------------------------

\* the two errors of the strict check of the long path
AcrossOrOneline(r) ==
    r \in {Err(Useless("across", TRUE, "long")),
           Err(Useless("one-line", TRUE, "long"))}

\* C13: on the long path with strict, across without grid gives
\* Useless("across", true, "long"); otherwise oneline gives
\* Useless("one-line", true, "long"); across comes first when both apply,
\* across with grid is accepted, and these errors come before any error of
\* the table, the time format or the color scale.  Without strict neither
\* combination is an error.
C13_LongStrict ==
    called = "Mode" /\ matches.long > 0 =>
        /\ strict /\ matches.across > 0 /\ matches.grid = 0 =>
              result = Err(Useless("across", TRUE, "long"))
        /\ strict /\ ~(matches.across > 0 /\ matches.grid = 0)
                  /\ matches.oneline > 0 =>
              result = Err(Useless("one-line", TRUE, "long"))
        /\ strict /\ matches.across > 0 /\ matches.grid > 0
                  /\ matches.oneline = 0 =>
              ~AcrossOrOneline(result)
        /\ ~strict => ~AcrossOrOneline(result)

\* across and oneline both apply, and the table has an error of its own
C13_Witness ==
    /\ called = "Mode"
    /\ strict
    /\ matches.long > 0 /\ matches.across > 0 /\ matches.grid = 0
    /\ matches.oneline > 0
    /\ IsErr(TableOptionsDeduce(matches, vars))
    /\ result = Err(Useless("across", TRUE, "long"))

----------------------------------------------------------------------------

\* the flag record with the flag of that name cleared
Clear(m, f) ==
    CASE f = "one-line" -> [m EXCEPT !.oneline = 0]
      [] f = "time" -> [m EXCEPT !.time = None]
      [] f = "level" -> [m EXCEPT !.level = None]
      [] OTHER -> [m EXCEPT ![f] = 0]

\* the errors of the strict checks of Mode::deduce
StrictUseless(r) ==
    /\ IsErr(r)
    /\ \/ r.err.kind = "Useless" /\ r.err.ctx = "long"
       \/ r.err.kind = "Useless2"

\* C14: whenever Mode::deduce with strict returns Useless(f, ..) from its
\* strict checks, clearing f in the flag record leaves the result of
\* Mode::deduce without strict unchanged.
C14_NoEffect ==
    called = "Mode" /\ strict /\ StrictUseless(result) =>
        ModeDeduce(Clear(matches, result.err.flag), vars, FALSE)
            = ModeDeduce(matches, vars, FALSE)

----------------------------------------------------------------------------

\* the positions in LongFlagNames of the flags that are set
SetInOrder ==
    {i \in 1..Len(LongFlagNames) :
        IF LongFlagNames[i] = "time" THEN matches.time # None
        ELSE matches[LongFlagNames[i]] > 0}

\* C15: in the strict check without long, the first set flag in the order
\* binary, bytes, inode, links, header, blocksize, time, group, numeric,
\* mounts is reported; only if none is set, git without no-git gives
\* Useless("git", false, "long"); only if that does not fire, level with
\* recurse and tree both unset gives Useless2("level", "recurse", "tree");
\* level with tree or recurse set passes the check.
C15_CheckOrder ==
    called = "Mode" /\ strict /\ matches.long = 0 =>
        LET gitFires == matches.git > 0 /\ matches.no_git = 0
            levelFires == /\ matches.level # None
                          /\ matches.recurse = 0 /\ matches.tree = 0
        IN  /\ SetInOrder # {} =>
                  \E i \in SetInOrder :
                      /\ \A j \in SetInOrder : i <= j
                      /\ result = Err(Useless(LongFlagNames[i], FALSE, "long"))
            /\ SetInOrder = {} /\ gitFires =>
                  result = Err(Useless("git", FALSE, "long"))
            /\ SetInOrder = {} /\ ~gitFires /\ levelFires =>
                  result = Err(Useless2("level", "recurse", "tree"))
            /\ SetInOrder = {} /\ ~gitFires /\ ~levelFires =>
                  ~StrictUseless(result)

\* git and a flag of the list are both set: the flag of the list is reported
C15_Witness ==
    /\ called = "Mode"
    /\ strict
    /\ matches.long = 0
    /\ matches.mounts > 0 /\ matches.git > 0 /\ matches.no_git = 0
    /\ result = Err(Useless("mounts", FALSE, "long"))

----------------------------------------------------------------------------

\* TableOptions with its siblings taken in the other order
TableOtherOrder(m, v) ==
    LET columns == ColumnsDeduce(m, v)
        time_format == TimeFormatDeduce(m, v)
    IN  IF ~IsOk(columns) THEN columns
        ELSE IF ~IsOk(time_format) THEN time_format
        ELSE TableOptionsDeduce(m, v)

\* the long path with the color scale taken before the table
ModeOtherOrder(m, v, s) ==
    LET color_scale == ColorScaleDeduce(m, v)
        table == TableOptionsDeduce(m, v)
        strictError == s /\ (m.oneline > 0 \/ (m.across > 0 /\ m.grid = 0))
    IN  IF strictError THEN ModeLong(m, v, s)
        ELSE IF ~IsOk(color_scale) THEN color_scale
        ELSE IF ~IsOk(table) THEN table
        ELSE ModeLong(m, v, s)

\* C16 as stated: the result does not depend on the order of the sibling
\* deductions, TimeFormat before or after Columns in TableOptions and
\* TableOptions before or after ColorScaleOptions on the long path, also
\* when more than one sibling fails.
C16_Original ==
    /\ called = "TableOptions" => result = TableOtherOrder(matches, vars)
    /\ called = "Mode" /\ matches.long > 0 =>
          result = ModeOtherOrder(matches, vars, strict)

\* C16 (amended): when at most one sibling fails the result does not
\* depend on the order of the sibling deductions; when more than one
\* fails the result is the failure of the sibling the code takes first,
\* TimeFormat before Columns in TableOptions and TableOptions before
\* ColorScaleOptions on the long path.
C16_Siblings ==
    /\ called = "TableOptions" =>
          LET time_format == TimeFormatDeduce(matches, vars)
              columns == ColumnsDeduce(matches, vars)
          IN  /\ IsOk(time_format) \/ IsOk(columns) =>
                    result = TableOtherOrder(matches, vars)
              /\ ~IsOk(time_format) /\ ~IsOk(columns) => result = time_format
    /\ called = "Mode" /\ matches.long > 0 =>
          LET table == TableOptionsDeduce(matches, vars)
              color_scale == ColorScaleDeduce(matches, vars)
          IN  /\ IsOk(table) \/ IsOk(color_scale) =>
                    result = ModeOtherOrder(matches, vars, strict)
              /\ ~IsOk(table) /\ ~IsOk(color_scale)
                     /\ ~AcrossOrOneline(result) => result = table

\* the time style and the time word are both bad: the time style is reported
C16_Witness ==
    /\ called = "TableOptions"
    /\ IsErr(TimeFormatDeduce(matches, vars))
    /\ IsErr(ColumnsDeduce(matches, vars))
    /\ TimeFormatDeduce(matches, vars) # ColumnsDeduce(matches, vars)
    /\ result = TimeFormatDeduce(matches, vars)

----------------------------------------------------------------------------

\* the grid-rows key that supplies the value: the current one if it is set
RowsKey ==
    IF vars.EZA_GRID_ROWS # None THEN Some("EZA_GRID_ROWS")
    ELSE IF vars.EXA_GRID_ROWS # None THEN Some("EXA_GRID_ROWS")
    ELSE None

\* the value under that key
RowsValue == vars[Unwrap(RowsKey)][1]

\* the environment without the grid-rows keys
NoRows == [vars EXCEPT !.EZA_GRID_ROWS = None, !.EXA_GRID_ROWS = None]

\* long and grid are set and the details are deduced without error
RowsMatter ==
    /\ matches.long > 0 /\ matches.grid > 0
    /\ IsOk(DeduceLong(matches, vars, strict))

IsGridDetails(r, rows) ==
    IsOk(r) /\ r.val.mode = "GridDetails" /\ r.val.row_threshold = rows

\* C17 as stated: the grid-rows value comes from the current/legacy pair,
\* the current key winning; with long and grid a parseable value gives
\* GridDetails with MinimumRows(n), an absent one AlwaysGrid, an
\* unparsable one FailedParse attributed to the key that supplied it; in
\* every other combination of mode flags the value is never consulted.
C17_Original ==
    called = "Mode" =>
        IF RowsMatter
        THEN IF RowsKey = None THEN IsGridDetails(result, RT_AlwaysGrid)
             ELSE LET parsed == ParseUnsigned(RowsValue) IN
                  IF IsSome(parsed)
                  THEN IsGridDetails(result, RT_MinimumRows(Unwrap(parsed)))
                  ELSE result = Err(FailedParse(RowsValue, Unwrap(RowsKey)))
        ELSE result = ModeDeduce(matches, NoRows, strict)

\* C17 (amended): as stated, for a value that is valid Unicode; a value
\* of the winning key that is not valid Unicode counts as absent and
\* gives AlwaysGrid, the other key not being asked.  With long and grid
\* the value is consulted once the details are deduced without error.
C17_GridRows ==
    called = "Mode" =>
        IF RowsMatter
        THEN IF RowsKey = None \/ ~IsText(RowsValue)
             THEN IsGridDetails(result, RT_AlwaysGrid)
             ELSE LET parsed == ParseUnsigned(RowsValue) IN
                  /\ IF IsSome(parsed)
                     THEN IsGridDetails(result, RT_MinimumRows(Unwrap(parsed)))
                     ELSE result = Err(FailedParse(RowsValue, Unwrap(RowsKey)))
                  /\ \A c \in WidthCases :
                        RowsValue = c[1] =>
                            IsGridDetails(result, RT_MinimumRows(c[2]))
                  /\ \A t \in NotNumbers :
                        RowsValue = t =>
                            result = Err(FailedParse(t, Unwrap(RowsKey)))
        ELSE result = ModeDeduce(matches, NoRows, strict)

\* both keys are set and the current one holds no number
C17_Witness ==
    /\ called = "Mode"
    /\ matches.long > 0 /\ matches.grid > 0
    /\ vars.EZA_GRID_ROWS = Some(<<"-">>)
    /\ vars.EXA_GRID_ROWS = Some(<<"2">>)
    /\ result = Err(FailedParse(<<"-">>, "EZA_GRID_ROWS"))

----------------------------------------------------------------------------

\* C18: strict only adds rejections: a mode that Mode::deduce returns with
\* strict is the mode it returns without strict, and an input that fails
\* without strict fails with strict too (possibly with another error).
C18_StrictOnlyRejects ==
    called = "Mode" =>
        /\ strict /\ IsOk(result) =>
              ModeDeduce(matches, vars, FALSE) = result
        /\ ~strict /\ ~IsOk(result) =>
              ~IsOk(ModeDeduce(matches, vars, TRUE))
        /\ ~strict /\ IsErr(result) =>
              IsErr(ModeDeduce(matches, vars, TRUE))

\* an input that fails without strict and fails with another error with it
C18_Witness ==
    /\ called = "Mode"
    /\ ~strict
    /\ IsErr(result)
    /\ IsErr(ModeDeduce(matches, vars, TRUE))
    /\ ModeDeduce(matches, vars, TRUE) # result

----------------------------------------------------------------------------

\* C19: every TerminalWidth value that TerminalWidth::deduce returns is
\* Automatic or Set(n) with n >= 1, whether the number came from the width
\* flag or from COLUMNS; a width of 0 from either means Automatic.
C19_PositiveWidth ==
    called = "TerminalWidth" /\ IsOk(result) =>
        \/ result.val = TW_Automatic
        \/ result.val.width = "Set" /\ result.val.n >= 1

============================================================================
